---- MODULE Spec2Model ----
(***************************************************************************)
(* State-machine model of the tk-blender engine's context refresher        *)
(* (engine.py) and of the launcher's software scan (startup_debug.py).     *)
(***************************************************************************)
EXTENDS Integers, Sequences, FiniteSets, TLC

(***************************************************************************)
(* Bounds                                                                  *)
(***************************************************************************)
\* how many foreign handlers other add-ons may append to each handler list
MaxOther == 1

(***************************************************************************)
(* Contexts, the toolkit's replies for the files of a fixed project layout *)
(***************************************************************************)
NoProject == "none"
NoEntity  == "none"

Context(p, e) == [project |-> p, entity |-> e]

\* the context the toolkit builds from a project entity dictionary
context_from_entity_dictionary(project) == Context(project, NoEntity)

\* contexts the engine may be started in: the site's, or a shot's
InitialContexts == { Context(NoProject, NoEntity), Context("P1", "shot") }

\* values of bpy.data.filepath
UnsavedPaths == { "", "Untitled.blend" }
SavedPaths ==
    { "/p1/shot.blend", "/p2/shot.blend", "/p1/misc.blend", "/tmp/x.blend",
      "/p1/bad.blend" }
FilePaths == UnsavedPaths \cup SavedPaths

\* os.path.abspath: absolute paths are returned as they are, a relative one
\* is joined to the working directory
Cwd == "/home/user"
abspath(p) == IF p \in SavedPaths THEN p ELSE Cwd \o "/" \o p

\* tank.sgtk_from_path: a toolkit handle, or TankError for a path outside
\* every project
sgtk_from_path(p) ==
    IF p \in { "/p1/shot.blend", "/p2/shot.blend", "/p1/misc.blend", "/p1/bad.blend" }
    THEN "ok" ELSE "TankError"

\* tk.context_from_path(path, previous_context): a context, nothing, or an
\* unexpected error; the hint only refines fields that are not modelled
context_from_path(p, previous) ==
    CASE p = "/p1/shot.blend" -> [kind |-> "ctx",   ctx |-> Context("P1", "shot")]
      [] p = "/p2/shot.blend" -> [kind |-> "ctx",   ctx |-> Context("P2", "shot")]
      [] p = "/p1/misc.blend" -> [kind |-> "none",  ctx |-> previous]
      [] OTHER                -> [kind |-> "raise", ctx |-> previous]

\* outcomes of a call into the toolkit or the GUI
Outcomes == { "ok", "TankError", "Error" }

(***************************************************************************)
(* State                                                                   *)
(***************************************************************************)
VARIABLES
    stage,            \* life cycle of the engine
    auto_switch,      \* setting automatic_context_switch
    has_ui,           \* not bpy.app.background
    current_engine,   \* tank.platform.current_engine() is this engine
    context,          \* engine.context
    filepath,         \* bpy.data.filepath
    menu,             \* "none", "enabled" or "disabled"
    load_post,        \* bpy.app.handlers.load_post
    save_post,        \* bpy.app.handlers.save_post
    atexit,           \* teardown_app_handlers registered with atexit
    dispatch,         \* the host's position in the handler list it is running
    path_changed,     \* the open path changed since the last refresh
    last,             \* what the most recent callback invocation did
    evt,              \* what the callbacks of the current event did in total
    error_shown       \* engine.show_error was called

engine_vars ==
    << stage, auto_switch, has_ui, current_engine, context, filepath, menu,
       load_post, save_post, atexit, dispatch, path_changed, last, evt,
       error_shown >>

CB    == "on_scene_event_callback"
OTHER_HANDLER == "other"

Idle == [kind |-> "none", pos |-> 0]

NoRun ==
    [result |-> "none", sgtk |-> 0, cfp |-> 0, change |-> 0, warn |-> 0,
     menus |-> 0, raised |-> FALSE, reported |-> FALSE, escaped |-> FALSE]

NoEvent == [runs |-> 0, change |-> 0, first |-> "none"]

(***************************************************************************)
(* The launcher: discovery of installed executables (startup_debug.py)     *)
(***************************************************************************)
\* how many files the scanned directories hold
MaxFiles == 2

\* os.environ.get of a variable that is not set
Unset == "<unset>"
EnvironmentVariables ==
    { "BLENDER_BIN_DIR", "USERPROFILE", "SGTK_BLENDER_CMD_EXTRA_ARGS" }

VARIABLES
    platform,         \* sys.platform
    environ,          \* os.environ: BLENDER_BIN_DIR, SGTK_BLENDER_CMD_EXTRA_ARGS
    fs,               \* the executables on disk, in directory order
    scan_pc,          \* "off", "start" or "done"
    sw_versions,      \* what _find_software returned
    supported_sw_versions   \* what scan_software returned

launcher_vars ==
    << platform, environ, fs, scan_pc, sw_versions, supported_sw_versions >>

vars == << engine_vars, launcher_vars >>

\* Version tokens are sequences of characters.
Digit == { "0", "1", "2", "3", "4", "5", "6", "7", "8", "9" }
DigitValue(c) ==
    CASE c = "0" -> 0 [] c = "1" -> 1 [] c = "2" -> 2 [] c = "3" -> 3
      [] c = "4" -> 4 [] c = "5" -> 5 [] c = "6" -> 6 [] c = "7" -> 7
      [] c = "8" -> 8 [] c = "9" -> 9

\* the version a match without a version key is given
BlankVersion == << " " >>

\* COMPONENT_REGEX_LOOKUP["version"] = \d.\d+(.\d*)* against a whole token:
\* a digit, any character, a digit, then anything ("." is any character and
\* \d* may be empty, so the last group matches every rest)
version_regex(token) ==
    /\ Len(token) >= 3
    /\ token[1] \in Digit
    /\ token[3] \in Digit

\* A template: an optional leading environment variable, the text before the
\* version placeholder, whether there is a placeholder, the text after it.
Template(var, head, versioned, tail) ==
    [tilde |-> FALSE, var |-> var, head |-> head, versioned |-> versioned,
     tail |-> tail]

EXECUTABLE_TEMPLATES(sys_platform) ==
    CASE sys_platform = "darwin" ->
           << Template("BLENDER_BIN_DIR", "/Blender ", TRUE, ""),
              Template("", "/Applications/Blender", TRUE,
                       ".app/Contents/MacOS/Blender") >>
      [] sys_platform = "win32" ->
           << Template("BLENDER_BIN_DIR", "/blender.exe", FALSE, ""),
              Template("USERPROFILE",
                       "/AppData/Roaming/Blender Foundation/Blender/", TRUE,
                       "/blender.exe"),
              Template("", "C:/Program Files/Blender Foundation/Blender ", TRUE,
                       "/blender.exe"),
              Template("", "C:/Program Files/Blender Foundation/Blender/blender.exe",
                       FALSE, "") >>
      [] sys_platform = "linux2" ->
           << Template("BLENDER_BIN_DIR", "/blender", FALSE, ""),
              Template("", "/usr/share/blender/blender", FALSE, "") >>
      [] OTHER -> << >>

minimum_supported_version == << "2", ".", "8" >>

Home == "/home/user"

\* os.path.expanduser: only a leading "~" is replaced
expanduser(t) ==
    IF t.tilde THEN [t EXCEPT !.tilde = FALSE, !.head = Home \o @] ELSE t

\* os.path.expandvars: a variable that is not set stays as literal text
expandvars(t, env) ==
    IF t.var = "" THEN t
    ELSE IF env[t.var] # Unset
    THEN [t EXCEPT !.var = "", !.head = env[t.var] \o @]
    ELSE [t EXCEPT !.var = "", !.head = "$" \o t.var \o @]

\* a file on disk: the text before a version token, the token (empty when
\* the path has none), the text after it
File(head, token, tail) == [head |-> head, token |-> token, tail |-> tail]

\* whether the expanded template matches the file, as glob and regex decide
template_matches(t, f) ==
    IF t.versioned
    THEN f.head = t.head /\ f.tail = t.tail /\ version_regex(f.token)
    ELSE f.token = << >> /\ f.head = t.head \o t.tail /\ f.tail = ""

RECURSIVE _glob_and_match(_, _)
\* SoftwareLauncher._glob_and_match: the matching paths in directory order,
\* each with the values of the keys of the template
_glob_and_match(t, files) ==
    IF files = << >> THEN << >>
    ELSE LET f == Head(files)
             rest == _glob_and_match(t, Tail(files))
         IN  IF template_matches(t, f)
             THEN << [path |-> f,
                      key_dict |-> IF t.versioned
                                   THEN [has_version |-> TRUE, version |-> f.token]
                                   ELSE [has_version |-> FALSE, version |-> << >>]] >>
                  \o rest
             ELSE rest

\* _icon_from_engine
icon_from_engine == "icon_256.png"

\* line 229: key_dict.get("version", " ")
executable_version_empty_default(key_dict) ==
    IF key_dict.has_version THEN key_dict.version ELSE << >>
executable_version(key_dict) ==
    IF key_dict.has_version THEN key_dict.version ELSE BlankVersion

\* lines 231-233: the argument list made for one match; made is the number of
\* lists made before it, so args_ref tells the list objects apart
launch_args_shared(extra_args, made) ==
    [ref |-> 0,
     items |-> IF extra_args # Unset /\ extra_args # ""
               THEN << extra_args >> ELSE << >>]
launch_args(extra_args, made) ==
    [ref |-> made + 1,
     items |-> IF extra_args # Unset /\ extra_args # ""
               THEN << extra_args >> ELSE << >>]

\* lines 223-243: one SoftwareVersion for a match
software_version(match, extra_args, made) ==
    [version  |-> executable_version(match.key_dict),
     product  |-> "Blender",
     path     |-> match.path,
     icon     |-> icon_from_engine,
     args     |-> launch_args(extra_args, made).items,
     args_ref |-> launch_args(extra_args, made).ref]

RECURSIVE matches_to_versions(_, _, _)
matches_to_versions(matches, extra_args, made) ==
    IF matches = << >> THEN << >>
    ELSE << software_version(Head(matches), extra_args, made) >>
         \o matches_to_versions(Tail(matches), extra_args, made + 1)

RECURSIVE find_in_templates(_, _, _, _)
\* lines 212-243: the loop over the templates; made is the number of
\* candidates appended so far
find_in_templates(templates, env, files, made) ==
    IF templates = << >> THEN << >>
    ELSE LET executable_template == expandvars(expanduser(Head(templates)), env)
             executable_matches == _glob_and_match(executable_template, files)
         IN  matches_to_versions(executable_matches,
                                 env["SGTK_BLENDER_CMD_EXTRA_ARGS"], made)
             \o find_in_templates(Tail(templates), env, files,
                                  made + Len(executable_matches))

RECURSIVE without_duplicates(_, _)
without_duplicates(candidates, seen) ==
    IF candidates = << >> THEN << >>
    ELSE IF Head(candidates).path \in seen
    THEN without_duplicates(Tail(candidates), seen)
    ELSE << Head(candidates) >>
         \o without_duplicates(Tail(candidates), seen \cup { Head(candidates).path })

_find_software_deduplicated(sys_platform, env, files) ==
    without_duplicates(
        find_in_templates(EXECUTABLE_TEMPLATES(sys_platform), env, files, 0), { })
_find_software(sys_platform, env, files) ==
    find_in_templates(EXECUTABLE_TEMPLATES(sys_platform), env, files, 0)

\* The version policy of the launcher base class.
RECURSIVE parse_version(_, _, _)
\* the numeric components of a token, split at the dots; cur is the component
\* being read (-1: none yet)
parse_version(token, cur, parts) ==
    IF token = << >>
    THEN IF cur = -1 THEN [numeric |-> FALSE, parts |-> << >>]
         ELSE [numeric |-> TRUE, parts |-> Append(parts, cur)]
    ELSE LET c == Head(token)
         IN  IF c \in Digit
             THEN parse_version(Tail(token),
                                (IF cur = -1 THEN 0 ELSE cur * 10) + DigitValue(c),
                                parts)
             ELSE IF c = "." /\ cur # -1
             THEN parse_version(Tail(token), -1, Append(parts, cur))
             ELSE [numeric |-> FALSE, parts |-> << >>]

RECURSIVE is_version_older(_, _)
\* component-wise order of two lists of numbers
is_version_older(a, b) ==
    IF b = << >> THEN FALSE
    ELSE IF a = << >> THEN TRUE
    ELSE IF Head(a) # Head(b) THEN Head(a) < Head(b)
    ELSE is_version_older(Tail(a), Tail(b))

\* SoftwareLauncher._is_supported: the version can be compared and is not
\* older than the minimum
_is_supported(sw_version) ==
    LET v == parse_version(sw_version.version, -1, << >>)
        m == parse_version(minimum_supported_version, -1, << >>)
    IN  v.numeric /\ ~is_version_older(v.parts, m.parts)

RECURSIVE scan_loop(_, _)
\* lines 182-190
scan_loop(candidates, supported) ==
    IF candidates = << >> THEN supported
    ELSE scan_loop(Tail(candidates),
                   IF _is_supported(Head(candidates))
                   THEN Append(supported, Head(candidates))
                   ELSE supported)

RECURSIVE scan_prepend(_, _)
scan_prepend(candidates, supported) ==
    IF candidates = << >> THEN supported
    ELSE scan_prepend(Tail(candidates),
                      IF _is_supported(Head(candidates))
                      THEN << Head(candidates) >> \o supported
                      ELSE supported)

scan_software_newest_first(candidates) == scan_prepend(candidates, << >>)
\* scan_software, given what _find_software returned
scan_software(candidates) == scan_loop(candidates, << >>)

(***************************************************************************)
(* Handler registration                                                    *)
(***************************************************************************)
RECURSIVE remove(_, _)
\* list.remove(x): drops the first occurrence
remove(list, x) ==
    IF list = << >> THEN << >>
    ELSE IF Head(list) = x THEN Tail(list)
    ELSE << Head(list) >> \o remove(Tail(list), x)

In(x, list) == \E i \in 1..Len(list) : list[i] = x

\* h holds the two handler lists and whether atexit knows the teardown
teardown_app_handlers(h) ==
    [load_post |-> IF In(CB, h.load_post) THEN remove(h.load_post, CB) ELSE h.load_post,
     save_post |-> IF In(CB, h.save_post) THEN remove(h.save_post, CB) ELSE h.save_post,
     atexit    |-> h.atexit]

\* setup without the teardown that precedes the registration
setup_app_handlers_append_only(h) ==
    [load_post |-> Append(h.load_post, CB),
     save_post |-> Append(h.save_post, CB),
     atexit    |-> TRUE]
setup_app_handlers(h) ==
    LET t == teardown_app_handlers(h)
    IN  [load_post |-> Append(t.load_post, CB),
         save_post |-> Append(t.save_post, CB),
         atexit    |-> TRUE]

(***************************************************************************)
(* Menu                                                                    *)
(***************************************************************************)
\* MenuGenerator.create_menu(disabled): the menu is rebuilt, greyed out when
\* disabled
create_menu(disabled) == IF disabled THEN "disabled" ELSE "enabled"

create_shotgun_menu(m, ui, disabled) ==
    IF ui THEN create_menu(disabled) ELSE m

(***************************************************************************)
(* Context change                                                          *)
(***************************************************************************)
\* BlenderEngine.post_context_change; hook is the outcome of the core hook.
\* s is the engine and host state the refresher can touch.
post_context_change(s, auto, ui, old_context, new_context, hook) ==
    IF auto
    THEN LET h == setup_app_handlers([load_post |-> s.load_post,
                                      save_post |-> s.save_post,
                                      atexit |-> s.atexit])
             rebuilt == old_context # new_context
         IN  [context   |-> s.context,
              load_post |-> h.load_post,
              save_post |-> h.save_post,
              atexit    |-> h.atexit,
              menu      |-> IF rebuilt
                            THEN create_shotgun_menu(s.menu, ui, FALSE)
                            ELSE s.menu,
              menus     |-> IF rebuilt THEN 1 ELSE 0,
              exc       |-> hook]
    ELSE [context |-> s.context, load_post |-> s.load_post,
          save_post |-> s.save_post, atexit |-> s.atexit, menu |-> s.menu,
          menus |-> 0, exc |-> "ok"]

\* Engine.change_context of the toolkit core: the checks made before the
\* switch may reject it (pre); otherwise the context is set and
\* post_context_change runs.
change_context(s, auto, ui, new_context, pre, hook) ==
    IF pre # "ok"
    THEN [context |-> s.context, load_post |-> s.load_post,
          save_post |-> s.save_post, atexit |-> s.atexit, menu |-> s.menu,
          menus |-> 0, exc |-> pre]
    ELSE post_context_change([s EXCEPT !.context = new_context], auto, ui,
                             s.context, new_context, hook)

(***************************************************************************)
(* refresh_engine                                                          *)
(***************************************************************************)
Untouched(s, result) ==
    [context |-> s.context, load_post |-> s.load_post, save_post |-> s.save_post,
     atexit |-> s.atexit, menu |-> s.menu, result |-> result, sgtk |-> 0,
     cfp |-> 0, change |-> 0, warn |-> 0, menus |-> 0, raised |-> FALSE]

\* line 140: the document has not been saved under a path yet
scene_not_saved_untitled_only(scene_name) == scene_name = "Untitled.blend"
scene_not_saved(scene_name) ==
    scene_name = "" \/ scene_name \in { "", "Untitled.blend" }

\* lines 150-158: no toolkit for the path; warn and keep the context
no_toolkit_silent(s) == [Untouched(s, "terr") EXCEPT !.sgtk = 1]
no_toolkit(s) == [Untouched(s, "terr") EXCEPT !.sgtk = 1, !.warn = 1]

\* lines 162-171: the context found for the path, or else the context of the
\* project of the engine's context
resolved_context_keep_current(found, engine_context) ==
    IF found.kind = "none" THEN engine_context ELSE found.ctx
resolved_context(found, engine_context) ==
    IF found.kind = "none"
    THEN context_from_entity_dictionary(engine_context.project)
    ELSE found.ctx

\* line 173: whether the context has to be requested from the engine
needs_change_always(ctx, current_context) == TRUE
needs_change(ctx, current_context) == ctx # current_context

\* lines 176-182: change_context raised TankError; c is the state it left
change_failed_menu_kept(c, ui) ==
    [context |-> c.context, load_post |-> c.load_post, save_post |-> c.save_post,
     atexit |-> c.atexit, menu |-> c.menu, result |-> "chgfail", change |-> 1,
     warn |-> 1, menus |-> c.menus, raised |-> FALSE]
change_failed(c, ui) ==
    [context |-> c.context, load_post |-> c.load_post, save_post |-> c.save_post,
     atexit |-> c.atexit, menu |-> create_shotgun_menu(c.menu, ui, TRUE),
     result |-> "chgfail", change |-> 1, warn |-> 1, menus |-> c.menus + 1,
     raised |-> FALSE]

\* lines 173-182: the context change and the handling of its TankError
apply_context(s, auto, ui, ctx, current_context, pre, hook) ==
    IF needs_change(ctx, current_context)
    THEN LET c == change_context(s, auto, ui, ctx, pre, hook)
         IN  CASE c.exc = "ok" ->
                    [context |-> c.context, load_post |-> c.load_post,
                     save_post |-> c.save_post, atexit |-> c.atexit,
                     menu |-> c.menu, result |-> "changed", change |-> 1,
                     warn |-> 0, menus |-> c.menus, raised |-> FALSE]
               [] c.exc = "TankError" -> change_failed(c, ui)
               [] OTHER ->
                    [context |-> c.context, load_post |-> c.load_post,
                     save_post |-> c.save_post, atexit |-> c.atexit,
                     menu |-> c.menu, result |-> "raised", change |-> 1,
                     warn |-> 0, menus |-> c.menus, raised |-> TRUE]
    ELSE [context |-> s.context, load_post |-> s.load_post,
          save_post |-> s.save_post, atexit |-> s.atexit, menu |-> s.menu,
          result |-> "same", change |-> 0, warn |-> 0, menus |-> 0,
          raised |-> FALSE]

refresh_engine(s, engine, auto, ui, path, pre, hook) ==
    IF ~engine THEN Untouched(s, "noengine")
    ELSE IF scene_not_saved(path) THEN Untouched(s, "nofile")
    ELSE
      LET scene_name == abspath(path)
          current_context == s.context
      IN  IF sgtk_from_path(scene_name) = "TankError"
          THEN no_toolkit(s)
          ELSE
            LET found == context_from_path(scene_name, current_context)
            IN  IF found.kind = "raise"
                THEN [Untouched(s, "raised") EXCEPT !.sgtk = 1, !.cfp = 1,
                                                     !.raised = TRUE]
                ELSE IF found.kind = "none" /\ s.context.project = NoProject
                THEN \* engine.context.project is None: .get raises AttributeError
                     [Untouched(s, "raised") EXCEPT !.sgtk = 1, !.cfp = 1,
                                                     !.raised = TRUE]
                ELSE
                  LET ctx == resolved_context(found, s.context)
                      a == apply_context(s, auto, ui, ctx, current_context, pre, hook)
                  IN  [context |-> a.context, load_post |-> a.load_post,
                       save_post |-> a.save_post, atexit |-> a.atexit,
                       menu |-> a.menu, result |-> a.result, sgtk |-> 1,
                       cfp |-> 1, change |-> a.change, warn |-> a.warn,
                       menus |-> a.menus, raised |-> a.raised]

(***************************************************************************)
(* Engine life cycle                                                       *)
(***************************************************************************)
\* bpy.app.version[:2] of the hosts the engine may be started in
HostVersions == { <<2, 79>>, <<2, 80>>, <<2, 93>>, <<3, 0>> }

\* number of decimal digits of a minor version number
Digits(n) == IF n < 10 THEN 1 ELSE IF n < 100 THEN 2 ELSE 3
Pow10(d) == IF d = 1 THEN 10 ELSE IF d = 2 THEN 100 ELSE 1000

\* float(".".join(map(str, build_version[:2]))) < 2.8, in exact arithmetic
older_than_minimum_by_component(v) ==
    v[1] < 2 \/ (v[1] = 2 /\ v[2] < 8)
older_than_minimum(v) ==
    v[1] * Pow10(Digits(v[2])) + v[2] < (28 * Pow10(Digits(v[2]))) \div 10

\* the launcher is not part of the running engine
LauncherOff ==
    /\ platform = "linux"
    /\ environ = [v \in EnvironmentVariables |-> Unset]
    /\ fs = << >>
    /\ scan_pc = "off"
    /\ sw_versions = << >>
    /\ supported_sw_versions = << >>

Init ==
    /\ stage = "created"
    /\ auto_switch \in BOOLEAN
    /\ has_ui \in BOOLEAN
    /\ current_engine = FALSE
    /\ context \in InitialContexts
    /\ filepath = ""
    /\ menu = "none"
    /\ load_post = << >>
    /\ save_post = << >>
    /\ atexit = FALSE
    /\ dispatch = Idle
    /\ path_changed = FALSE
    /\ last = NoRun
    /\ evt = NoEvent
    /\ error_shown = FALSE
    /\ LauncherOff

init_engine(platform_ok, version) ==
    /\ UNCHANGED launcher_vars
    /\ stage = "created"
    /\ dispatch = Idle
    /\ IF ~platform_ok
       THEN /\ stage' = "unsupported_platform"
            /\ UNCHANGED << load_post, save_post, atexit, error_shown >>
       ELSE IF older_than_minimum(version)
       THEN /\ stage' = "too_old"
            /\ error_shown' = TRUE
            /\ UNCHANGED << load_post, save_post, atexit >>
       ELSE /\ stage' = "inited"
            /\ UNCHANGED error_shown
            /\ IF auto_switch
               THEN LET h == setup_app_handlers([load_post |-> load_post,
                                                 save_post |-> save_post,
                                                 atexit |-> atexit])
                    IN  /\ load_post' = h.load_post
                        /\ save_post' = h.save_post
                        /\ atexit' = h.atexit
               ELSE UNCHANGED << load_post, save_post, atexit >>
    /\ UNCHANGED << auto_switch, has_ui, current_engine, context, filepath, menu,
                    dispatch, path_changed, last, evt >>

post_app_init ==
    /\ UNCHANGED launcher_vars
    /\ stage = "inited"
    /\ dispatch = Idle
    /\ stage' = "running"
    /\ current_engine' = TRUE
    /\ menu' = create_shotgun_menu(menu, has_ui, FALSE)
    /\ UNCHANGED << auto_switch, has_ui, context, filepath, load_post, save_post,
                    atexit, dispatch, path_changed, last, evt, error_shown >>

\* the interpreter exits: the functions registered with atexit run
Exit ==
    /\ UNCHANGED launcher_vars
    /\ stage \in { "inited", "running" }
    /\ dispatch = Idle
    /\ stage' = "exited"
    /\ LET h == teardown_app_handlers([load_post |-> load_post,
                                       save_post |-> save_post,
                                       atexit |-> atexit])
       IN  /\ load_post' = IF atexit THEN h.load_post ELSE load_post
           /\ save_post' = IF atexit THEN h.save_post ELSE save_post
    /\ UNCHANGED << auto_switch, has_ui, current_engine, context, filepath, menu,
                    atexit, dispatch, path_changed, last, evt, error_shown >>

(***************************************************************************)
(* Host events                                                             *)
(***************************************************************************)
Others(list) == Cardinality({ i \in 1..Len(list) : list[i] = OTHER_HANDLER })

\* another add-on appends a handler of its own
RegisterOther(kind) ==
    /\ UNCHANGED launcher_vars
    /\ dispatch = Idle
    /\ stage # "exited"
    /\ IF kind = "load"
       THEN /\ Others(load_post) < MaxOther
            /\ load_post' = Append(load_post, OTHER_HANDLER)
            /\ UNCHANGED save_post
       ELSE /\ Others(save_post) < MaxOther
            /\ save_post' = Append(save_post, OTHER_HANDLER)
            /\ UNCHANGED load_post
    /\ UNCHANGED << stage, auto_switch, has_ui, current_engine, context, filepath,
                    menu, atexit, dispatch, path_changed, last, evt, error_shown >>

Handlers(kind, lp, sp) == IF kind = "load" THEN lp ELSE sp

\* the host's loop over a handler list: for (pos = 0; pos < len(list); pos++)
Advance(kind, pos, list) ==
    IF pos < Len(list) THEN [kind |-> kind, pos |-> pos] ELSE Idle

\* a file is loaded (or a new, unsaved one is started), or the file is saved
\* under a path; the host then runs the handlers of the event
BeginEvent(kind, p) ==
    /\ UNCHANGED launcher_vars
    /\ dispatch = Idle
    /\ stage # "exited"
    /\ kind = "save" => p \in SavedPaths
    /\ filepath' = p
    /\ path_changed' = (path_changed \/ p # filepath)
    /\ dispatch' = Advance(kind, 0, Handlers(kind, load_post, save_post))
    /\ evt' = NoEvent
    /\ UNCHANGED << stage, auto_switch, has_ui, current_engine, context, menu,
                    load_post, save_post, atexit, last, error_shown >>

\* on_scene_event_callback: refresh_engine, and the report of what it raised
on_scene_event_callback(pre, hook, report) ==
    LET r == refresh_engine([context |-> context, load_post |-> load_post,
                             save_post |-> save_post, atexit |-> atexit,
                             menu |-> menu],
                            current_engine, auto_switch, has_ui, filepath,
                            pre, hook)
    IN  \* an outcome is drawn only for a call that is made
        /\ pre # "ok" => hook = "ok"
        /\ r.change = 0 => (pre = "ok" /\ hook = "ok")
        /\ ~r.raised => report = "ok"
        /\ context' = r.context
        /\ load_post' = r.load_post
        /\ save_post' = r.save_post
        /\ menu' = r.menu
        /\ atexit' = r.atexit
        /\ last' = [result |-> r.result, sgtk |-> r.sgtk, cfp |-> r.cfp,
                    change |-> r.change, warn |-> r.warn, menus |-> r.menus,
                    raised |-> r.raised, reported |-> r.raised,
                    escaped |-> (r.raised /\ report # "ok")]
        /\ evt' = [runs |-> evt.runs + 1, change |-> evt.change + r.change,
                   first |-> IF evt.runs = 0 THEN r.result ELSE evt.first]
        /\ path_changed' = FALSE

RunHandler ==
    /\ UNCHANGED launcher_vars
    /\ dispatch.kind # "none"
    /\ LET list == Handlers(dispatch.kind, load_post, save_post)
       IN  /\ IF list[dispatch.pos + 1] = CB
              THEN \E pre \in Outcomes, hook \in Outcomes, report \in { "ok", "Error" } :
                      on_scene_event_callback(pre, hook, report)
              ELSE UNCHANGED << context, load_post, save_post, menu, atexit, last,
                                evt, path_changed >>
           /\ dispatch' = Advance(dispatch.kind, dispatch.pos + 1,
                                  Handlers(dispatch.kind, load_post', save_post'))
    /\ UNCHANGED << stage, auto_switch, has_ui, current_engine, filepath,
                    error_shown >>

Next ==
    \/ \E ok \in BOOLEAN, v \in HostVersions : init_engine(ok, v)
    \/ post_app_init
    \/ Exit
    \/ \E kind \in { "load", "save" } : RegisterOther(kind)
    \/ \E kind \in { "load", "save" }, p \in FilePaths : BeginEvent(kind, p)
    \/ RunHandler

Spec == Init /\ [][Next]_vars

\* the contexts a toolkit app may ask the engine to switch to
AppContexts == { Context("P1", "shot"), Context("P2", "shot") }

\* a toolkit app (a file manager, say) calls engine.change_context between
\* events; what the call raises goes to the app
AppChangesContext(new_context, pre, hook) ==
    LET c == change_context([context |-> context, load_post |-> load_post,
                             save_post |-> save_post, atexit |-> atexit,
                             menu |-> menu],
                            auto_switch, has_ui, new_context, pre, hook)
    IN  /\ UNCHANGED launcher_vars
        /\ stage = "running"
        /\ dispatch = Idle
        \* an outcome is drawn only for a call that is made
        /\ (pre # "ok" \/ ~auto_switch) => hook = "ok"
        /\ context' = c.context
        /\ load_post' = c.load_post
        /\ save_post' = c.save_post
        /\ atexit' = c.atexit
        /\ menu' = c.menu
        /\ path_changed' = (path_changed \/ c.context # context)
        /\ UNCHANGED << stage, auto_switch, has_ui, current_engine, filepath,
                        dispatch, last, evt, error_shown >>

\* the engine together with the apps that switch its context
NextLifecycle ==
    \/ Next
    \/ \E c \in AppContexts, pre \in Outcomes, hook \in Outcomes :
          AppChangesContext(c, pre, hook)

SpecLifecycle == Init /\ [][NextLifecycle]_vars

(***************************************************************************)
(* Properties of the context refresher                                     *)
(***************************************************************************)
\* the host is about to call on_scene_event_callback
CallbackNext ==
    /\ dispatch.kind # "none"
    /\ Handlers(dispatch.kind, load_post, save_post)[dispatch.pos + 1] = CB

\* the open file has a saved path for which a toolkit handle can be had
HasToolkit ==
    /\ current_engine
    /\ filepath \in SavedPaths
    /\ sgtk_from_path(abspath(filepath)) = "ok"

Found == context_from_path(abspath(filepath), context)

\* the refresh has something to compare the engine's context with
Resolvable ==
    /\ HasToolkit
    /\ \/ Found.kind = "ctx"
       \/ Found.kind = "none" /\ context.project # NoProject

\* the context the refresh aims at: the one found for the path, or else the
\* project-level context of the engine's project
Target ==
    IF Found.kind = "ctx" THEN Found.ctx ELSE Context(context.project, NoEntity)

\* the last load/save event was handled by refresh_engine for the open path
Refreshed ==
    /\ dispatch = Idle
    /\ current_engine
    /\ ~path_changed
    /\ last.result \notin { "none", "noengine" }

\* C1 (as stated): between events the engine's context is (a) the context
\* resolved from the open file's path, (b) the project-level context when the
\* resolution yielded nothing, or (c) untouched when no file is saved yet.
C1_AsStated ==
    Refreshed =>
        \/ filepath \in UnsavedPaths
        \/ HasToolkit /\ Found.kind = "ctx" /\ context = Found.ctx
        \/ HasToolkit /\ Found.kind = "none" /\ context.entity = NoEntity
                      /\ context.project # NoProject

\* C1 (amended): every callback invocation leaves the engine's context either
\* as it was or equal to the context it aimed at; it is the aimed-at context
\* when the change succeeded or was not needed, and it is the previous context
\* when no file is saved, when no toolkit handle could be had, and when the
\* refresh raised before requesting a change.
C1_ContextAfterRefresh ==
    [][CallbackNext =>
        /\ context' = context \/ (Resolvable /\ context' = Target)
        /\ last'.result \in { "changed", "same" } => Resolvable /\ context' = Target
        /\ last'.result \in { "nofile", "noengine", "terr" } => context' = context
        /\ last'.change = 0 => context' = context
        /\ ~current_engine => last'.result = "noengine"
        /\ (current_engine /\ filepath \in UnsavedPaths) => last'.result = "nofile"
        /\ (current_engine /\ filepath \in SavedPaths /\ ~HasToolkit)
               => last'.result = "terr"
        /\ Resolvable => last'.result \in { "changed", "same", "chgfail", "raised" }
      ]_vars

\* a refresh for a path outside every project left the previous context
C1_Witness ==
    /\ Refreshed
    /\ last.result = "terr"
    /\ filepath = "/tmp/x.blend"
    /\ context = Context("P2", "shot")

\* C2: no exception ever escapes on_scene_event_callback.
C2_NothingEscapes == last.escaped = FALSE

\* C3 (as stated): a refresh that follows another one with no change of the
\* open path in between is a no-op, whatever the first one's outcome was
\* (success, no toolkit handle, failed context change).
C3_AsStated ==
    [][(CallbackNext /\ ~path_changed
          /\ last.result \in { "changed", "same", "terr", "chgfail" })
        => /\ last'.change = 0
           /\ last'.warn = 0
           /\ last'.menus = 0
           /\ context' = context
           /\ menu' = menu
      ]_vars

\* C3 (amended): a refresh that follows a successful one (the context was
\* changed or was already the resolved one) with no change of the open path in
\* between is a no-op: no change_context request, no warning, menu untouched.
C3_IdempotentAfterSuccess ==
    [][(CallbackNext /\ ~path_changed /\ last.result \in { "changed", "same" })
        => /\ last'.result = "same"
           /\ last'.change = 0
           /\ last'.warn = 0
           /\ last'.menus = 0
           /\ context' = context
           /\ menu' = menu
      ]_vars

\* the callback ran twice for one event, the first run changed the context
C3_Witness ==
    /\ evt.runs = 2
    /\ evt.first = "changed"
    /\ last.result = "same"
    /\ ~path_changed

\* C4: when the path resolves to a context and the first refresh of an event
\* changed the context successfully, the event made exactly one
\* change_context request and the engine's context is the resolved one.
C4_ChangedExactlyOnce ==
    (dispatch = Idle /\ evt.first = "changed" /\ Found.kind = "ctx")
        => /\ evt.change = 1
           /\ context = Found.ctx

\* an event whose callback re-registered itself, was run again, and that
\* moved the engine to the other project
C4_Witness ==
    /\ dispatch = Idle
    /\ evt.first = "changed"
    /\ evt.runs = 2
    /\ filepath = "/p2/shot.blend"
    /\ context = Context("P2", "shot")

\* context_from_path yields nothing for the open path
FallbackCase == HasToolkit /\ Found.kind = "none"

\* C5 (as stated): on the fallback path refresh_engine does not raise and
\* shows no warning; a warning is shown only when sgtk_from_path failed.
C5_AsStated ==
    [][CallbackNext =>
        /\ FallbackCase => (~last'.raised /\ last'.warn = 0)
        /\ last'.warn > 0 => last'.result = "terr"
      ]_vars

\* C5 (amended): on the fallback path refresh_engine aims at the context of
\* the project of the engine's context.  Without a project entity it raises
\* and changes nothing.  Otherwise it requests that context iff it differs
\* from the current one, it raises only if change_context raises something
\* other than TankError, and it warns exactly when change_context raises
\* TankError.
C5_Fallback ==
    [][(CallbackNext /\ FallbackCase) =>
        LET fallback == Context(context.project, NoEntity)
        IN  /\ context.project = NoProject
                => /\ last'.raised
                   /\ last'.change = 0
                   /\ last'.warn = 0
                   /\ context' = context
            /\ (context.project # NoProject /\ fallback = context)
                => /\ last'.result = "same"
                   /\ last'.change = 0
                   /\ last'.warn = 0
                   /\ context' = context
            /\ (context.project # NoProject /\ fallback # context)
                => /\ last'.change = 1
                   /\ last'.result \in { "changed", "chgfail", "raised" }
                   /\ last'.result = "changed" => context' = fallback
                   /\ context' \in { context, fallback }
                   /\ last'.warn = 1 <=> last'.result = "chgfail"
                   /\ last'.raised <=> last'.result = "raised"
      ]_vars

\* the fallback moved the engine from the shot to its project
C5_Witness ==
    /\ Refreshed
    /\ filepath = "/p1/misc.blend"
    /\ last.result = "changed"
    /\ context = Context("P1", NoEntity)

\* C6: with no saved path a load or save event is a no-op.
C6_UnsavedIsNoOp ==
    [][(CallbackNext /\ filepath = "") =>
        /\ context' = context
        /\ menu' = menu
        /\ load_post' = load_post
        /\ save_post' = save_post
        /\ last'.sgtk = 0
        /\ last'.cfp = 0
        /\ last'.change = 0
        /\ last'.warn = 0
        /\ last'.menus = 0
        /\ ~last'.raised
      ]_vars

\* the callback of a running engine was called for a new, unsaved document
C6_Witness ==
    /\ current_engine
    /\ filepath = ""
    /\ evt.runs >= 1
    /\ last.result = "nofile"

\* C7: when sgtk_from_path raises TankError the refresh warns, leaves the
\* context, calls neither context_from_path nor change_context and leaves the
\* menu alone.
C7_NoToolkit ==
    [][(CallbackNext /\ current_engine /\ filepath \in SavedPaths
          /\ sgtk_from_path(abspath(filepath)) = "TankError")
        => /\ last'.result = "terr"
           /\ last'.sgtk = 1
           /\ last'.warn = 1
           /\ last'.cfp = 0
           /\ last'.change = 0
           /\ last'.menus = 0
           /\ ~last'.raised
           /\ context' = context
           /\ menu' = menu
      ]_vars

C7_Witness ==
    /\ current_engine
    /\ filepath = "/tmp/x.blend"
    /\ evt.runs >= 1
    /\ last.result = "terr"
    /\ menu = "enabled"

\* C8 (as stated): when change_context raises TankError the refresh warns, the
\* menu ends up disabled and nothing propagates.
C8_AsStated ==
    [][(CallbackNext /\ last'.result = "chgfail")
        => /\ last'.warn = 1
           /\ ~last'.raised
           /\ menu' = "disabled"
      ]_vars

\* C8 (amended): when change_context raises TankError the refresh warns and
\* nothing propagates; with a user interface the menu ends up disabled,
\* without one (background mode) no menu exists and none is built.
C8_MenuDisabledWithUi ==
    [][(CallbackNext /\ last'.result = "chgfail")
        => /\ last'.warn = 1
           /\ last'.change = 1
           /\ ~last'.raised
           /\ ~last'.escaped
           /\ has_ui => menu' = "disabled"
           /\ ~has_ui => (menu' = "none" /\ menu = "none")
      ]_vars

C8_Witness ==
    /\ has_ui
    /\ last.result = "chgfail"
    /\ last.menus = 2
    /\ menu = "disabled"

\* C9: the refresher changes the engine's context only by a change_context
\* request, and when the resolved or fallback context is the current one the
\* refresh is a no-op.
C9_OnlyThroughChange ==
    [][CallbackNext =>
        /\ context' # context => last'.change = 1
        /\ (Resolvable /\ Target = context)
             => /\ last'.result = "same"
                /\ last'.change = 0
                /\ last'.warn = 0
                /\ last'.menus = 0
                /\ context' = context
                /\ menu' = menu
      ]_vars

\* a file of the engine's own context was saved again
C9_Witness ==
    /\ Refreshed
    /\ evt.runs = 1
    /\ last.result = "same"
    /\ filepath = "/p1/shot.blend"
    /\ context = Context("P1", "shot")

(***************************************************************************)
(* The software scan on a fake file system                                 *)
(***************************************************************************)
\* the engine is not part of the launcher's process
EngineOff ==
    /\ stage = "created"
    /\ auto_switch = TRUE
    /\ has_ui = TRUE
    /\ current_engine = FALSE
    /\ context = Context("P1", NoEntity)
    /\ filepath = ""
    /\ menu = "none"
    /\ load_post = << >>
    /\ save_post = << >>
    /\ atexit = FALSE
    /\ dispatch = Idle
    /\ path_changed = FALSE
    /\ last = NoRun
    /\ evt = NoEvent
    /\ error_shown = FALSE

Platforms == { "darwin", "win32", "linux2", "linux" }

BinDir == "/opt/blender"

\* values of BLENDER_BIN_DIR: not set, a directory of its own, or the
\* directory another template of the platform names
BinDirs == { Unset, BinDir, "/usr/share/blender" }

\* version tokens found in installation paths
Tokens ==
    { << "2", ".", "7" >>, << "2", ".", "8" >>, << "2", ".", "7", "9" >>,
      << "3", ".", "0" >>, << "2", "x", "8" >> }

\* the installations that may be on disk
FileUniverse ==
    { File("/Applications/Blender", t, ".app/Contents/MacOS/Blender") : t \in Tokens }
    \cup { File(BinDir \o "/Blender ", t, "") :
             t \in { << "2", ".", "8" >>, << "2", ".", "7" >> } }
    \cup { File("C:/Program Files/Blender Foundation/Blender ", t, "/blender.exe") :
             t \in { << "2", ".", "7" >>, << "3", ".", "0" >>, << "2", "x", "8" >> } }
    \cup { File("C:/Program Files/Blender Foundation/Blender/blender.exe", << >>, ""),
           File(BinDir \o "/blender.exe", << >>, ""),
           File("/usr/share/blender/blender", << >>, ""),
           File(BinDir \o "/blender", << >>, "") }

\* directory listings without repetition
Listings ==
    { l \in UNION { [1..n -> FileUniverse] : n \in 0..MaxFiles } :
        \A i, j \in 1..Len(l) : i # j => l[i] # l[j] }

InitScan ==
    /\ EngineOff
    /\ platform \in Platforms
    /\ \E dir \in BinDirs, extra \in { Unset, "", "-b" } :
          environ = [v \in EnvironmentVariables |->
                       CASE v = "BLENDER_BIN_DIR" -> dir
                         [] v = "SGTK_BLENDER_CMD_EXTRA_ARGS" -> extra
                         [] OTHER -> IF platform = "win32" THEN "C:/Users/u" ELSE Unset]
    /\ fs \in Listings
    /\ scan_pc = "start"
    /\ sw_versions = << >>
    /\ supported_sw_versions = << >>

\* BlenderLauncher.scan_software
ScanSoftware ==
    /\ scan_pc = "start"
    /\ scan_pc' = "done"
    /\ sw_versions' = _find_software(platform, environ, fs)
    /\ supported_sw_versions' = scan_software(sw_versions')
    /\ UNCHANGED << platform, environ, fs >>
    /\ UNCHANGED engine_vars

NextScan == ScanSoftware

SpecScan == InitScan /\ [][NextScan]_vars

(***************************************************************************)
(* Properties of the software scan                                         *)
(***************************************************************************)
\* the tokens that denote a version at or above 2.8, components compared as
\* numbers from the left
AtLeastMinimum == { << "2", ".", "8" >>, << "2", ".", "7", "9" >>, << "3", ".", "0" >> }

MeetsMinimum(sw_version) == sw_version.version \in AtLeastMinimum

ExpandedTemplates ==
    LET templates == EXECUTABLE_TEMPLATES(platform)
    IN  [k \in 1..Len(templates) |-> expandvars(expanduser(templates[k]), environ)]

\* the pairs of a template and a file it matches
MatchPairs ==
    { p \in (1..Len(ExpandedTemplates)) \X (1..Len(fs)) :
        template_matches(ExpandedTemplates[p[1]], fs[p[2]]) }

\* the place of a pair when pairs are taken in template order and, within a
\* template, in directory order
PairRank(p) ==
    1 + Cardinality({ q \in MatchPairs :
                        q[1] < p[1] \/ (q[1] = p[1] /\ q[2] < p[2]) })

\* C11: _find_software emits one candidate per pair of a template and a match,
\* in template order, with the version the regex matched for a template with
\* a version placeholder; templates without matches add nothing and equal
\* paths found by several templates are all kept, so the number of candidates
\* is the sum of the match counts.
C11_OnePerMatch ==
    scan_pc = "done" =>
        /\ Len(sw_versions) = Cardinality(MatchPairs)
        /\ \A p \in MatchPairs :
              /\ sw_versions[PairRank(p)].path = fs[p[2]]
              /\ ExpandedTemplates[p[1]].versioned
                    => /\ sw_versions[PairRank(p)].version = fs[p[2]].token
                       /\ version_regex(sw_versions[PairRank(p)].version)

\* BLENDER_BIN_DIR names the directory of the second Linux template: the one
\* executable is found twice, after a first scan step that found it as well
C11_Witness ==
    /\ scan_pc = "done"
    /\ platform = "linux2"
    /\ Len(fs) = 2
    /\ Len(sw_versions) = 2
    /\ sw_versions[1].path = sw_versions[2].path

\* C12: a match of a template without a version placeholder yields a
\* candidate whose version is the blank sentinel, one space, not the empty
\* string.
C12_BlankSentinel ==
    scan_pc = "done" =>
        \A p \in MatchPairs :
            ~ExpandedTemplates[p[1]].versioned
                => /\ sw_versions[PairRank(p)].version = << " " >>
                   /\ Len(sw_versions[PairRank(p)].version) = 1

\* a Windows scan that found the installation without a version in its path
C12_Witness ==
    /\ scan_pc = "done"
    /\ platform = "win32"
    /\ Len(sw_versions) >= 1
    /\ \E i \in 1..Len(sw_versions) :
          /\ sw_versions[i].path.token = << >>
          /\ sw_versions[i].version = BlankVersion

ExtraArgs == environ["SGTK_BLENDER_CMD_EXTRA_ARGS"]

\* every candidate has an argument list of its own
OwnArgsLists ==
    \A i, j \in 1..Len(sw_versions) :
        i # j => sw_versions[i].args_ref # sw_versions[j].args_ref

\* C13 (as stated): with the variable set every candidate has exactly one
\* extra argument, the variable's value; with it unset, none; no two
\* candidates share a list.
C13_AsStated ==
    scan_pc = "done" =>
        /\ ExtraArgs # Unset
              => \A i \in 1..Len(sw_versions) : sw_versions[i].args = << ExtraArgs >>
        /\ ExtraArgs = Unset
              => \A i \in 1..Len(sw_versions) : sw_versions[i].args = << >>
        /\ OwnArgsLists

\* C13 (amended): with the variable set to a non-empty value every candidate
\* has exactly one extra argument, that value; with it unset or empty, none;
\* no two candidates share a list.
C13_ExtraArgs ==
    scan_pc = "done" =>
        /\ ExtraArgs \notin { Unset, "" }
              => \A i \in 1..Len(sw_versions) : sw_versions[i].args = << ExtraArgs >>
        /\ ExtraArgs \in { Unset, "" }
              => \A i \in 1..Len(sw_versions) : sw_versions[i].args = << >>
        /\ OwnArgsLists

\* two candidates, each with the one argument of the variable
C13_Witness ==
    /\ scan_pc = "done"
    /\ ExtraArgs = "-b"
    /\ Len(sw_versions) = 2
    /\ sw_versions[1].args = << "-b" >>
    /\ sw_versions[2].args = << "-b" >>
    /\ sw_versions[1].args_ref # sw_versions[2].args_ref

(***************************************************************************)
(* Properties of the handler registration                                  *)
(***************************************************************************)
Count(x, list) == Cardinality({ i \in 1..Len(list) : list[i] = x })

\* the handlers of other add-ons, in the order of the list
OtherHandlers(list) == SelectSeq(list, LAMBDA x : x # CB)

IsPrefix(a, b) == Len(a) <= Len(b) /\ SubSeq(b, 1, Len(a)) = a

\* a step in which setup_app_handlers runs: in init_engine, or in the
\* post_context_change of a context change made by the running callback
SetupStep ==
    /\ auto_switch
    /\ \/ stage = "created" /\ stage' = "inited"
       \/ CallbackNext /\ context' # context

\* a step in which teardown_app_handlers runs on its own: at exit
TeardownStep == atexit /\ stage # "exited" /\ stage' = "exited"

\* C14: on_scene_event_callback is at most once in load_post and in
\* save_post; right after setup_app_handlers it is exactly once in both,
\* right after teardown_app_handlers in neither; the handlers of others stay
\* in the lists, in their order.
C14_RegisteredAtMostOnce ==
    [][ /\ Count(CB, load_post') <= 1
        /\ Count(CB, save_post') <= 1
        /\ SetupStep => Count(CB, load_post') = 1 /\ Count(CB, save_post') = 1
        /\ TeardownStep => Count(CB, load_post') = 0 /\ Count(CB, save_post') = 0
        /\ IsPrefix(OtherHandlers(load_post), OtherHandlers(load_post'))
        /\ IsPrefix(OtherHandlers(save_post), OtherHandlers(save_post'))
      ]_vars

\* the callback, registered before another handler, has changed the context
\* during a load event and is now registered again, behind that handler
C14_Witness ==
    /\ dispatch.kind = "load"
    /\ last.result = "changed"
    /\ evt.runs = 1
    /\ load_post = << OTHER_HANDLER, CB >>
    /\ Count(CB, save_post) = 1

\* the interpreter has exited after the callback had been registered
C14_WitnessExit ==
    /\ stage = "exited"
    /\ atexit
    /\ load_post = << OTHER_HANDLER >>
    /\ Count(CB, save_post) = 0

(***************************************************************************)
(* Properties of the engine start                                          *)
(***************************************************************************)
\* the hosts of HostVersions whose major.minor, read as a decimal number, is
\* at least 2.8
SupportedHostVersions == { << 2, 80 >>, << 2, 93 >>, << 3, 0 >> }

Registered(lp, sp) == In(CB, lp) \/ In(CB, sp)

\* C15: init_engine registers the callback exactly when the platform is
\* supported, the host is at least 2.8 and automatic_context_switch is true;
\* for an older host it shows an error and raises TankError with no handler
\* registered; with the setting false neither init_engine nor
\* post_context_change registers a handler or rebuilds the menu.
C15_RegistersOnlyWhenAllowed ==
    [][ /\ \A ok \in BOOLEAN, v \in HostVersions :
              init_engine(ok, v) =>
                  /\ Registered(load_post', save_post')
                        <=> (ok /\ v \in SupportedHostVersions /\ auto_switch)
                  /\ Registered(load_post', save_post')
                        => In(CB, load_post') /\ In(CB, save_post') /\ atexit'
                  /\ (ok /\ v \notin SupportedHostVersions)
                        => /\ error_shown'
                           /\ stage' = "too_old"
                           /\ ~atexit'
                  /\ (ok /\ v \in SupportedHostVersions)
                        => ~error_shown' /\ stage' = "inited"
                  /\ menu' = menu
        /\ \A c \in AppContexts, pre \in Outcomes, hook \in Outcomes :
              (~auto_switch /\ AppChangesContext(c, pre, hook)) =>
                  /\ load_post' = load_post
                  /\ save_post' = save_post
                  /\ atexit' = atexit
                  /\ menu' = menu
      ]_vars

\* the engine was started in a host older than 2.8 with the setting on
C15_Witness ==
    /\ stage = "too_old"
    /\ auto_switch
    /\ error_shown
    /\ ~Registered(load_post, save_post)
    /\ ~atexit

\* with the setting off an app has switched the engine to another project:
\* the menu made by post_app_init is as it was, nothing is registered
C15_WitnessSettingOff ==
    /\ stage = "running"
    /\ ~auto_switch
    /\ has_ui
    /\ context = Context("P2", "shot")
    /\ menu = "enabled"
    /\ ~Registered(load_post, save_post)

\* the engine was started in a supported host with the setting on
C15_WitnessRegistered ==
    /\ stage = "inited"
    /\ auto_switch
    /\ load_post = << CB >>
    /\ save_post = << CB >>
    /\ ~error_shown

====
